---- MODULE Spec2Model ----
(***************************************************************************)
(* A model of zipfs: an HTTP (FastCGI) server that serves the contents of  *)
(* zip archives.  ZipServer keeps a registry of opened archives; each      *)
(* opened archive (zipFS) keeps a cache of resolved content types.         *)
(*                                                                         *)
(* Strings are sequences of one-character strings, so that Trim, HasSuffix *)
(* and Join are computed as the code computes them.                        *)
(***************************************************************************)
EXTENDS Integers, Sequences, FiniteSets, TLC

\* ------------------------------------------------------------------ bounds
NumProcs == 2
MaxRequests == 3
MaxPathLen == 4

\* ------------------------------------------------------- program constants
SniffLen == 512
Store == "Store"
Deflate == "Deflate"
Bzip2 == "Bzip2"
StatusOK == 200
StatusMovedPermanently == 301
StatusNotFound == 404
StatusInternalServerError == 500

Procs == 1..NumProcs
\* Every zip.OpenReader that succeeds makes a new zipFS object; a request opens
\* at most one, so MaxRequests identities suffice.  NoFs is the nil *zipFS.
FsIds == 1..MaxRequests
NoFs == 0

\* --------------------------------------------------------------- strings
Slash == "/"
Dot == <<".">>
Alphabet == {"/", ".", "b", "d", "e", "f", "h", "i", "s"}

RECURSIVE TrimLeft(_)
TrimLeft(s) == IF s # <<>> /\ Head(s) = Slash THEN TrimLeft(Tail(s)) ELSE s

RECURSIVE TrimRight(_)
TrimRight(s) ==
  IF s # <<>> /\ s[Len(s)] = Slash THEN TrimRight(SubSeq(s, 1, Len(s) - 1)) ELSE s

\* strings.Trim(s, "/")
Trim(s) == TrimRight(TrimLeft(s))

\* strings.HasSuffix(s, "/")
HasSuffix(s) == s # <<>> /\ s[Len(s)] = Slash

\* path.Join(p, index) for a clean p and a one-segment index name
JoinPath(p, name) == IF p = Dot THEN name ELSE p \o <<Slash>> \o name

\* ------------------------------------------------------------ the archive
\* The entries of the archive on disk (zip.Reader.File), the same for every
\* origin.  content is the decompressed data as symbolic bytes: "<h" an HTML
\* signature, "t" a text byte, "z" a binary (control) byte.  The file f is
\* text for SniffLen bytes, and then has a binary byte.
LongText == [k \in 1..(SniffLen + 1) |-> IF k <= SniffLen THEN "t" ELSE "z"]

RawEntries ==
  << [name |-> <<"f">>,                     method |-> Deflate, content |-> LongText],
     [name |-> <<"f", ".", "h">>,           method |-> Store,   content |-> <<"t">>],
     [name |-> <<"d", "/", "i">>,           method |-> Deflate, content |-> <<"<h", "t">>],
     [name |-> <<"s", "/", "i", "/", "f">>, method |-> Store,   content |-> <<>>],
     [name |-> <<"e", "/", "i", "/">>,      method |-> Store,   content |-> <<>>],
     [name |-> <<"b">>,                     method |-> Bzip2,   content |-> <<"t">>],
     [name |-> <<"e", "/", "f">>,           method |-> Store,   content |-> <<>>],
     [name |-> <<"e", "/", "b">>,           method |-> Store,   content |-> <<"z", "t">>] >>

FileIds == 1..Len(RawEntries)
\* a nil *zip.File
NoFile == 0

\* the directories a name lies in: path.Dir iterated up to "."
DirsOf(name) == {SubSeq(name, 1, k - 1) : k \in {j \in 2..Len(name) : name[j] = Slash}}

\* zip.Reader.initFileList for the entries ar of an archive: the names of its
\* files and of its directory entries (an entry is a directory if its name ends
\* in a slash; a key has none), and the directories that appear only as a prefix
\* of a name, which are synthesized with no file behind them.  A name that is a
\* file is not made a directory.
FileKeysOf(ar) == {TrimRight(ar[i].name) : i \in {j \in 1..Len(ar) : ~HasSuffix(ar[j].name)}}
ExplicitDirsOf(ar) == {TrimRight(ar[i].name) : i \in {j \in 1..Len(ar) : HasSuffix(ar[j].name)}}
SyntheticDirsOf(ar) ==
  (UNION {DirsOf(TrimRight(ar[i].name)) : i \in 1..Len(ar)}) \ (ExplicitDirsOf(ar) \cup FileKeysOf(ar))

\* r.fileList
FileList(ar) ==
  [entries |-> ar, files |-> FileKeysOf(ar), dirs |-> ExplicitDirsOf(ar),
   synthetic |-> SyntheticDirsOf(ar)]

RawFileList == FileList(RawEntries)
FileKeys == RawFileList.files
ExplicitDirs == RawFileList.dirs
SyntheticDirs == RawFileList.synthetic
IndexKeys == FileKeys \cup ExplicitDirs \cup SyntheticDirs \cup {Dot}

EntryIdIn(ar, key) == CHOOSE id \in 1..Len(ar) : TrimRight(ar[id].name) = key
EntryIdOf(key) == EntryIdIn(RawEntries, key)

\* io/fs.ValidPath: "." or slash-separated elements, none empty, "." or ".."
RECURSIVE Elements(_)
Elements(s) ==
  IF \E k \in 1..Len(s) : s[k] = Slash
  THEN LET k == CHOOSE j \in 1..Len(s) : s[j] = Slash /\ \A i \in 1..(j - 1) : s[i] # Slash
       IN  <<SubSeq(s, 1, k - 1)>> \o Elements(SubSeq(s, k + 1, Len(s)))
  ELSE <<s>>

ValidPath(name) ==
  \/ name = Dot
  \/ \A k \in 1..Len(Elements(name)) :
       Elements(name)[k] \notin {<<>>, <<".">>, <<".", ".">>}

\* zip.Reader.Open followed by the reflection of FindRaw: the result is
\*   err   - no such entry, or the entry cannot be opened
\*   isDir - the fs.File is a ReadDirFile
\*   file  - the *zip.File behind it (NoFile for "." and synthesized directories)
NotExist == [err |-> TRUE, isDir |-> FALSE, file |-> NoFile, key |-> <<>>]

FindRawIn(fl, name) ==
  IF ~ValidPath(name) THEN NotExist
  ELSE IF name = Dot \/ name \in fl.synthetic
         THEN [err |-> FALSE, isDir |-> TRUE, file |-> NoFile, key |-> name]
  ELSE IF name \in fl.dirs
         THEN [err |-> FALSE, isDir |-> TRUE, file |-> EntryIdIn(fl.entries, name), key |-> name]
  ELSE IF name \in fl.files
         THEN IF fl.entries[EntryIdIn(fl.entries, name)].method \in {Store, Deflate}
              THEN [err |-> FALSE, isDir |-> FALSE, file |-> EntryIdIn(fl.entries, name),
                    key |-> name]
              ELSE NotExist   \* zip.ErrAlgorithm: no decompressor registered
  ELSE NotExist

FindRaw(name) == FindRawIn(RawFileList, name)

\* path.Dir of a clean relative name
Parent(name) ==
  IF \E k \in 1..Len(name) : name[k] = Slash
    THEN SubSeq(name, 1, (CHOOSE k \in 1..Len(name) :
                            name[k] = Slash /\ \A j \in (k + 1)..Len(name) : name[j] # Slash) - 1)
    ELSE Dot

\* rd.ReadDir(-1): the names r.fileList holds in the directory
ReadDirIn(fl, dir) ==
  {k \in (fl.files \cup fl.dirs \cup fl.synthetic) : Parent(k) = dir}

\* ------------------------------------------------------------ the request
Origins == {"x", "y"}
\* z.index: "" when no -index flag is given
NoIndex == <<>>
IndexNames == {NoIndex, <<"i">>}

\* The web server maps the URL /<origin><path> to SCRIPT_FILENAME = the
\* archive of <origin> and PATH_TRANSLATED = <path>.
URLPath(o, orig_path) == <<Slash, o>> \o orig_path
PathTranslated(url) == SubSeq(url, 3, Len(url))

\* a normalization that forgets the root
NormPathNoRoot(orig_path) == Trim(orig_path)

\* p := strings.Trim(orig_path, "/"); if p == "" { p = "." }
NormPath(orig_path) == IF Trim(orig_path) = <<>> THEN Dot ELSE Trim(orig_path)

\* an index lookup that does not ask for the trailing slash
TriesIndexNoSlash(index, orig_path, entry) == index # NoIndex /\ entry.isDir

\* the index.html lookup is attempted
TriesIndex(index, orig_path, entry) ==
  HasSuffix(orig_path) /\ index # NoIndex /\ entry.isDir

\* the directory is canonicalized with a trailing slash
NeedsRedirect(orig_path, entry) == entry.isDir /\ ~HasSuffix(orig_path)

\* a router that lets a file be addressed with a trailing slash
BadSlashNever(orig_path, entry) == FALSE

\* an erroneous trailing slash
BadSlash(orig_path, entry) == HasSuffix(orig_path) /\ ~entry.isDir

\* What ServeHTTP does once it has the archive: the call it ends with.
\*   kind  - "Error" (http.Error), "Redirect", "SendDirectory" or "SendFile"
\*   entry - the ZipEntry redirected to, or passed to SendDirectory or SendFile
Route(index, o, orig_path) ==
  LET p == NormPath(orig_path)
      entry == FindRaw(p)
      index_entry == FindRaw(JoinPath(p, index))
      none == [kind |-> "Error", status |-> StatusNotFound, entry |-> NotExist,
               location |-> <<>>, viaIndex |-> FALSE]
  IN  IF entry.err THEN none
      ELSE IF TriesIndex(index, orig_path, entry) /\ ~index_entry.err
        THEN [none EXCEPT !.kind = "SendFile", !.status = StatusOK,
                          !.entry = index_entry, !.viaIndex = TRUE]
      ELSE IF NeedsRedirect(orig_path, entry)
        THEN [none EXCEPT !.kind = "Redirect", !.status = StatusMovedPermanently,
                          !.entry = entry, !.location = URLPath(o, orig_path) \o <<Slash>>]
      ELSE IF BadSlash(orig_path, entry) THEN none
      ELSE IF entry.isDir
        THEN [none EXCEPT !.kind = "SendDirectory", !.status = StatusOK, !.entry = entry]
      ELSE [none EXCEPT !.kind = "SendFile", !.status = StatusOK, !.entry = entry]

\* --------------------------------------------------------- content types
RECURSIVE Ext(_)
\* filepath.Ext: the suffix from the last dot of the last element, or ""
Ext(name) ==
  IF name = <<>> \/ name[Len(name)] = Slash THEN <<>>
  ELSE IF name[Len(name)] = "." THEN <<".">>
  ELSE LET e == Ext(SubSeq(name, 1, Len(name) - 1))
       IN  IF e = <<>> THEN <<>> ELSE e \o <<name[Len(name)]>>

NoType == ""
TextHTML == "text/html; charset=utf-8"
TextPlain == "text/plain; charset=utf-8"
OctetStream == "application/octet-stream"

\* mime.TypeByExtension: ".h" stands for ".html"
TypeByExtension(ext) == IF ext = <<".", "h">> THEN TextHTML ELSE NoType

\* a read of the whole content
ReadChunkAll(content) == content

\* n, _ := io.ReadFull(r, chunk[:]); chunk[:n]
ReadChunk(content) == SubSeq(content, 1, IF Len(content) < SniffLen THEN Len(content) ELSE SniffLen)

\* http.DetectContentType: a signature, else text when no byte is binary
DetectContentType(data) ==
  IF data # <<>> /\ data[1] = "<h" THEN TextHTML
  ELSE IF \A k \in 1..Len(data) : data[k] # "z" THEN TextPlain
  ELSE OctetStream

\* ------------------------------------------------------- Accept-Encoding
\* The request's Accept-Encoding header as FastCGI hands it over: no value, or
\* one value (HTTP_ACCEPT_ENCODING), a sequence of codings.
AcceptEncodings ==
  { <<>>,
    << <<"gzip">> >>,
    << <<"br">> >>,
    << <<"br", "gzip">> >>,
    << <<"gzip;q=0">> >> }

\* r.Header.Get: the first value of the header, or ""
HeaderGet(h) == IF h = <<>> THEN <<>> ELSE h[1]

\* strings.Contains(value, "gzip")
ContainsGzip(value) == \E k \in 1..Len(value) : value[k] \in {"gzip", "gzip;q=0"}

\* the test of SendFile: the entry is compressed and the request takes gzip
Passthrough(file, h) ==
  RawEntries[file].method = Deflate /\ ContainsGzip(HeaderGet(h))

\* ----------------------------------------------------------------- state
VARIABLES
  index,       \* ZipServer.index
  archives,    \* ZipServer.archives: origin -> zipFS (NoFs: no key)
  regReaders,  \* ZipServer.rw: the requests holding it shared
  regWriter,   \* ZipServer.rw: the request holding it exclusively, or 0
  nextFs,      \* the number of zipFS objects made so far
  mimeCache,   \* zipFS.mimeCache: zipFS -> *zip.File -> type (NoType: no key)
  fsReaders,   \* zipFS.rw, shared
  fsWriter,    \* zipFS.rw, exclusive
  pc,          \* where each request is
  origin,      \* env["SCRIPT_FILENAME"] of the request
  zf,          \* the local zf
  file,        \* the entry.Entry passed to SendFile
  ctype,       \* the local x / ctype of GetMime
  resp,        \* what has been written to the http.ResponseWriter
  started,     \* the number of requests begun
  opens,       \* per origin, the zip.OpenReader calls that succeeded
  sniffs,      \* per zipFS and file, the executions of the sniffing read
  returned,    \* the origins for which a getArchive call has returned a zipFS
  firstType,   \* per zipFS and file, the first type stored in the cache
  late,        \* the request began after such a return for its origin
  opened,      \* the request has called zip.OpenReader
  alone        \* a request served on its own: its path, header and response

vars == <<index, archives, regReaders, regWriter, nextFs, mimeCache, fsReaders, fsWriter,
          pc, origin, zf, file, ctype, resp, started, opens, sniffs, returned, firstType,
          late, opened, alone>>

\* all but alone
serverVars == <<index, archives, regReaders, regWriter, nextFs, mimeCache, fsReaders,
                fsWriter, pc, origin, zf, file, ctype, resp, started, opens, sniffs,
                returned, firstType, late, opened>>

regVars == <<archives, regReaders, regWriter, nextFs>>
fsVars == <<mimeCache, fsReaders, fsWriter>>
histVars == <<opens, sniffs, returned, firstType>>

NoProc == 0
NoOrigin == ""

\* The paths requested where requests run concurrently: a directory without
\* its slash, a sniffed and a typed file, a missing path, a directory whose
\* index is a synthesized directory, and a file with no content.
ReqPaths ==
  { <<"/", "d">>, <<"/", "f">>, <<"/", "f", ".", "h">>, <<"/", "h">>, <<"/", "s", "/">>,
    <<"/", "e", "/", "f">> }

\* log: the calls made on the http.ResponseWriter, in order: the name of a
\* header that is set, "WriteHeader" or "Write".  openFailed: the request has
\* failed to open the byte stream of its entry.  origin: the archive that the
\* error text of a failed zip.OpenReader names.
NoResp ==
  [kind |-> "", status |-> 0, path |-> <<>>, viaIndex |-> FALSE, entry |-> NotExist,
   lastModified |-> NoFile, contentType |-> NoType, contentEncoding |-> "",
   location |-> <<>>, body |-> "", log |-> <<>>, openFailed |-> FALSE, origin |-> ""]

\* w.Header().Set(name, ...)
SetHeader(r, name) == [r EXCEPT !.log = Append(@, name)]

\* the status line and the headers have gone out
WroteHeader(r) == \E k \in 1..Len(r.log) : r.log[k] \in {"WriteHeader", "Write"}

\* w.WriteHeader(code): ignored once the header has gone out
WriteHeader(r, code) ==
  [r EXCEPT !.status = IF WroteHeader(r) THEN @ ELSE code, !.log = Append(@, "WriteHeader")]

\* w.Write: sends the header with StatusOK first if it has not gone out
Write(r) ==
  [r EXCEPT !.status = IF WroteHeader(r) THEN @ ELSE StatusOK, !.log = Append(@, "Write")]

\* http.Error(w, msg, code) and http.Redirect(w, r, url, code)
HttpError(r, code) ==
  Write(WriteHeader(SetHeader(SetHeader(r, "Content-Type"), "X-Content-Type-Options"), code))
HttpRedirect(r, code) ==
  Write(WriteHeader(SetHeader(SetHeader(r, "Location"), "Content-Type"), code))

\* a *zip.File of which nothing has been read
NoMeta == [modified |-> <<>>, content |-> <<>>, raw |-> <<>>, crc32 |-> <<>>, size64 |-> <<>>]

NotAlone ==
  [phase |-> "off", path |-> <<>>, accept |-> <<>>, resp |-> NoResp, meta |-> NoMeta,
   out |-> <<>>, archive |-> <<>>, found |-> NotExist, children |-> {}]

InitServer ==
  /\ index \in IndexNames
  /\ archives = [o \in Origins |-> NoFs]
  /\ regReaders = {}
  /\ regWriter = NoProc
  /\ nextFs = 0
  /\ mimeCache = [z \in FsIds |-> [f \in FileIds |-> NoType]]
  /\ fsReaders = [z \in FsIds |-> {}]
  /\ fsWriter = [z \in FsIds |-> NoProc]
  /\ pc = [p \in Procs |-> "idle"]
  /\ origin = [p \in Procs |-> NoOrigin]
  /\ zf = [p \in Procs |-> NoFs]
  /\ file = [p \in Procs |-> NoFile]
  /\ ctype = [p \in Procs |-> NoType]
  /\ resp = [p \in Procs |-> NoResp]
  /\ started = 0
  /\ opens = [o \in Origins |-> 0]
  /\ sniffs = [z \in FsIds |-> [f \in FileIds |-> 0]]
  /\ returned = {}
  /\ firstType = [z \in FsIds |-> [f \in FileIds |-> NoType]]
  /\ late = [p \in Procs |-> FALSE]
  /\ opened = [p \in Procs |-> FALSE]

Init == InitServer /\ alone = NotAlone

\* The handler is over: its locals are dead.
Return(p) ==
  /\ origin' = [origin EXCEPT ![p] = NoOrigin]
  /\ zf' = [zf EXCEPT ![p] = NoFs]
  /\ file' = [file EXCEPT ![p] = NoFile]
  /\ ctype' = [ctype EXCEPT ![p] = NoType]
  /\ late' = [late EXCEPT ![p] = FALSE]
  /\ opened' = [opened EXCEPT ![p] = FALSE]

\* ---------------------------------------------------- ZipServer.ServeHTTP
\* A request arrives: env := fcgi.ProcessEnv(r); z.getArchive(env["SCRIPT_FILENAME"])
Begin(p) ==
  /\ pc[p] = "idle"
  /\ started < MaxRequests
  /\ \E o \in Origins :
       /\ origin' = [origin EXCEPT ![p] = o]
       /\ late' = [late EXCEPT ![p] = o \in returned]
  /\ started' = started + 1
  /\ pc' = [pc EXCEPT ![p] = "ga_rlock"]
  /\ UNCHANGED <<alone, index, regVars, fsVars, zf, file, ctype, resp, histVars, opened>>

\* ------------------------------------------------------------ getArchive
\* an unlock that leaves the lock held
RUnlockKept(readers, p) == readers

\* rw.RUnlock() by p
RUnlock(readers, p) == readers \ {p}

\* an exclusive lock that does not wait for the readers to leave
CanLockAmongReaders(readers, writer) == writer = NoProc

\* sync.RWMutex.Lock returns once no request holds the lock in either mode
CanLock(readers, writer) == writer = NoProc /\ readers = {}

\* z.rw.RLock()
GaRLock(p) ==
  /\ pc[p] = "ga_rlock"
  /\ regWriter = NoProc
  /\ regReaders' = regReaders \cup {p}
  /\ pc' = [pc EXCEPT ![p] = "ga_read"]
  /\ UNCHANGED <<alone, index, archives, regWriter, nextFs, fsVars, origin, zf, file, ctype, resp,
                 started, histVars, late, opened>>

\* zf = z.archives[path]
GaRead(p) ==
  /\ pc[p] = "ga_read"
  /\ zf' = [zf EXCEPT ![p] = archives[origin[p]]]
  /\ pc' = [pc EXCEPT ![p] = "ga_runlock"]
  /\ UNCHANGED <<alone, index, regVars, fsVars, origin, file, ctype, resp, started, histVars,
                 late, opened>>

\* a getArchive that never finds the archive in the registry
CacheHitNever(z) == FALSE

\* the registry holds the archive: getArchive returns it without opening
CacheHit(z) == z # NoFs

\* z.rw.RUnlock(); if zf != nil { return }
GaRUnlock(p) ==
  /\ pc[p] = "ga_runlock"
  /\ regReaders' = RUnlock(regReaders, p)
  /\ IF CacheHit(zf[p])
       THEN /\ pc' = [pc EXCEPT ![p] = "route"]
            /\ returned' = returned \cup {origin[p]}
       ELSE /\ pc' = [pc EXCEPT ![p] = "ga_open"]
            /\ UNCHANGED returned
  /\ UNCHANGED <<alone, index, archives, regWriter, nextFs, fsVars, origin, zf, file, ctype, resp,
                 started, opens, sniffs, firstType, late, opened>>

\* an open error that is answered with nothing
OpenErrorIgnored(o) == NoResp

\* http.Error(w, err.Error(), http.StatusNotFound) for the error of getArchive
OpenError(o) ==
  HttpError([NoResp EXCEPT !.kind = "Error", !.body = "error", !.origin = o], StatusNotFound)

\* rc, err = zip.OpenReader(path); if err != nil { return }; zf = newZipFS(rc)
\* and, on an error, the http.Error of ServeHTTP
GaOpen(p) ==
  /\ pc[p] = "ga_open"
  /\ \E ok \in BOOLEAN :
       IF ok
         THEN /\ nextFs' = nextFs + 1
              /\ zf' = [zf EXCEPT ![p] = nextFs + 1]
              /\ opens' = [opens EXCEPT ![origin[p]] = @ + 1]
              /\ opened' = [opened EXCEPT ![p] = TRUE]
              /\ pc' = [pc EXCEPT ![p] = "ga_lock"]
              /\ UNCHANGED <<resp, origin, file, ctype, late>>
         ELSE /\ resp' = [resp EXCEPT ![p] = OpenError(origin[p])]
              /\ pc' = [pc EXCEPT ![p] = "done"]
              /\ Return(p)
              /\ UNCHANGED <<nextFs, opens>>
  /\ UNCHANGED <<alone, index, archives, regReaders, regWriter, fsVars, started, sniffs, returned,
                 firstType>>

\* z.rw.Lock()
GaLock(p) ==
  /\ pc[p] = "ga_lock"
  /\ CanLock(regReaders, regWriter)
  /\ regWriter' = p
  /\ pc' = [pc EXCEPT ![p] = "ga_store"]
  /\ UNCHANGED <<alone, index, archives, regReaders, nextFs, fsVars, origin, zf, file, ctype, resp,
                 started, histVars, late, opened>>

\* the value getArchive stores under the origin
Stored(p) == zf[p]

\* z.archives[path] = zf
GaStore(p) ==
  /\ pc[p] = "ga_store"
  /\ archives' = [archives EXCEPT ![origin[p]] = Stored(p)]
  /\ pc' = [pc EXCEPT ![p] = "ga_unlock"]
  /\ UNCHANGED <<alone, index, regReaders, regWriter, nextFs, fsVars, origin, zf, file, ctype, resp,
                 started, histVars, late, opened>>

\* z.rw.Unlock(); return
GaUnlock(p) ==
  /\ pc[p] = "ga_unlock"
  /\ regWriter' = NoProc
  /\ returned' = returned \cup {origin[p]}
  /\ pc' = [pc EXCEPT ![p] = "route"]
  /\ UNCHANGED <<alone, index, archives, regReaders, nextFs, fsVars, origin, zf, file, ctype, resp,
                 started, opens, sniffs, firstType, late, opened>>

\* ------------------------------------------- ServeHTTP after getArchive
\* The response of a request that ends in ServeHTTP or SendDirectory, and the
\* headers SendFile has set when it calls GetMime.
\*   http.Error, http.Redirect: status and body, no Last-Modified
\*   SendDirectory: Last-Modified if the directory has an entry, then the listing
\*   SendFile: Last-Modified from entry.Entry
Respond(a, path) ==
  LET r == [NoResp EXCEPT
              !.kind = a.kind, !.path = path, !.viaIndex = a.viaIndex,
              !.entry = a.entry, !.location = a.location,
              !.lastModified = IF a.kind \in {"SendDirectory", "SendFile"}
                                 THEN a.entry.file ELSE NoFile,
              !.contentType = IF a.kind = "SendDirectory" THEN TextHTML ELSE NoType,
              !.body = CASE a.kind = "Error" -> "error"
                         [] a.kind = "Redirect" -> "redirect"
                         [] a.kind = "SendDirectory" -> "listing"
                         [] OTHER -> ""]
      dated == IF r.lastModified # NoFile THEN SetHeader(r, "Last-Modified") ELSE r
  IN  CASE a.kind = "Error" -> HttpError(r, a.status)
        [] a.kind = "Redirect" -> HttpRedirect(r, a.status)
        [] a.kind = "SendDirectory" -> Write(SetHeader(dated, "Content-Type"))
        [] OTHER -> [dated EXCEPT !.status = a.status]

\* A panic ends the handler with nothing more written.
Panicked(r) == [r EXCEPT !.kind = "Panic", !.status = 0]

\* GetMime: f.Open() fails, panic(err)
SniffFailed(r) == [Panicked(r) EXCEPT !.openFailed = TRUE]

\* a routing that stops trying the index file once a zipFS has cached a type
RoutingCached(p, path) ==
  Route(IF \E z \in FsIds, f \in FileIds : mimeCache[z][f] # NoType
          THEN NoIndex ELSE index,
        origin[p], path)

\* What ServeHTTP reads to route: z.index, which nothing assigns after
\* NewZipServer, the file list of the archive it got, and the request path.
Routing(p, path) == Route(index, origin[p], path)

\* orig_path := env["PATH_TRANSLATED"] ... up to the return of ServeHTTP or the
\* call of z.GetMime in SendFile.  entry.Entry.Modified panics on a nil Entry.
\* What is only of use to getArchive (origin, late, opened) is dead from here.
RouteStep(p) ==
  /\ pc[p] = "route"
  /\ \E path \in ReqPaths :
       LET a == Routing(p, path)
       IN  IF a.kind # "SendFile"
             THEN /\ resp' = [resp EXCEPT ![p] = Respond(a, path)]
                  /\ pc' = [pc EXCEPT ![p] = "done"]
                  /\ Return(p)
           ELSE IF a.entry.file = NoFile
             THEN /\ resp' = [resp EXCEPT ![p] = Panicked(Respond(a, path))]
                  /\ pc' = [pc EXCEPT ![p] = "panicked"]
                  /\ Return(p)
           ELSE /\ resp' = [resp EXCEPT ![p] = Respond(a, path)]
                /\ file' = [file EXCEPT ![p] = a.entry.file]
                /\ pc' = [pc EXCEPT ![p] = "gm_rlock"]
                /\ origin' = [origin EXCEPT ![p] = NoOrigin]
                /\ late' = [late EXCEPT ![p] = FALSE]
                /\ opened' = [opened EXCEPT ![p] = FALSE]
                /\ UNCHANGED <<zf, ctype>>
  /\ UNCHANGED <<alone, index, regVars, fsVars, started, histVars>>

\* ---------------------------------------------------------- zipFS.GetMime
\* z.rw.RLock()
GmRLock(p) ==
  /\ pc[p] = "gm_rlock"
  /\ fsWriter[zf[p]] = NoProc
  /\ fsReaders' = [fsReaders EXCEPT ![zf[p]] = @ \cup {p}]
  /\ pc' = [pc EXCEPT ![p] = "gm_read"]
  /\ UNCHANGED <<alone, index, regVars, mimeCache, fsWriter, origin, zf, file, ctype, resp,
                 started, histVars, late, opened>>

\* a cache with one slot for the whole archive
CacheKeyShared(p) == 1

\* the key of z.mimeCache: the *zip.File
CacheKey(p) == file[p]

\* x, ok := z.mimeCache[f]
GmRead(p) ==
  /\ pc[p] = "gm_read"
  /\ ctype' = [ctype EXCEPT ![p] = mimeCache[zf[p]][CacheKey(p)]]
  /\ pc' = [pc EXCEPT ![p] = "gm_runlock"]
  /\ UNCHANGED <<alone, index, regVars, fsVars, origin, zf, file, resp, started, histVars,
                 late, opened>>

\* ctype := mime.TypeByExtension(filepath.Ext(f.Name))
ExtType(f) == TypeByExtension(Ext(RawEntries[f].name))

\* z.rw.RUnlock(); return x, or go on to the extension table
GmRUnlock(p) ==
  /\ pc[p] = "gm_runlock"
  /\ fsReaders' = [fsReaders EXCEPT ![zf[p]] = RUnlock(@, p)]
  /\ IF ctype[p] # NoType
       THEN /\ pc' = [pc EXCEPT ![p] = "sf_send"]
            /\ UNCHANGED ctype
     ELSE IF ExtType(file[p]) # NoType
       THEN /\ ctype' = [ctype EXCEPT ![p] = ExtType(file[p])]
            /\ pc' = [pc EXCEPT ![p] = "gm_lock"]
     ELSE /\ pc' = [pc EXCEPT ![p] = "gm_sniff"]
          /\ UNCHANGED ctype
  /\ UNCHANGED <<alone, index, regVars, mimeCache, fsWriter, origin, zf, file, resp,
                 started, histVars, late, opened>>

\* ctype = http.DetectContentType(chunk[:n]), for each entry
SniffTypes == [f \in FileIds |-> DetectContentType(ReadChunk(RawEntries[f].content))]
SniffType(f) == SniffTypes[f]

\* r, err := f.Open(); if err != nil { panic(err) }; io.ReadFull; DetectContentType
GmSniff(p) ==
  /\ pc[p] = "gm_sniff"
  /\ \E ok \in BOOLEAN :
       IF ok
         THEN /\ sniffs' = [sniffs EXCEPT ![zf[p]][file[p]] = @ + 1]
              /\ ctype' = [ctype EXCEPT ![p] = SniffType(file[p])]
              /\ pc' = [pc EXCEPT ![p] = "gm_lock"]
              /\ UNCHANGED <<resp, origin, zf, file, late, opened>>
         ELSE /\ resp' = [resp EXCEPT ![p] = SniffFailed(resp[p])]
              /\ pc' = [pc EXCEPT ![p] = "panicked"]
              /\ Return(p)
              /\ UNCHANGED sniffs
  /\ UNCHANGED <<alone, index, regVars, fsVars, started, opens, returned, firstType>>

\* z.rw.Lock()
GmLock(p) ==
  /\ pc[p] = "gm_lock"
  /\ CanLock(fsReaders[zf[p]], fsWriter[zf[p]])
  /\ fsWriter' = [fsWriter EXCEPT ![zf[p]] = p]
  /\ pc' = [pc EXCEPT ![p] = "gm_store"]
  /\ UNCHANGED <<alone, index, regVars, mimeCache, fsReaders, origin, zf, file, ctype, resp,
                 started, histVars, late, opened>>

\* z.mimeCache[f] = ctype
GmStore(p) ==
  /\ pc[p] = "gm_store"
  /\ mimeCache' = [mimeCache EXCEPT ![zf[p]][CacheKey(p)] = ctype[p]]
  /\ firstType' = [firstType EXCEPT ![zf[p]][CacheKey(p)] = IF @ = NoType THEN ctype[p] ELSE @]
  /\ pc' = [pc EXCEPT ![p] = "gm_unlock"]
  /\ UNCHANGED <<alone, index, regVars, fsReaders, fsWriter, origin, zf, file, ctype, resp,
                 started, opens, sniffs, returned, late, opened>>

\* z.rw.Unlock(); return ctype
GmUnlock(p) ==
  /\ pc[p] = "gm_unlock"
  /\ fsWriter' = [fsWriter EXCEPT ![zf[p]] = NoProc]
  /\ pc' = [pc EXCEPT ![p] = "sf_send"]
  /\ UNCHANGED <<alone, index, regVars, mimeCache, fsReaders, origin, zf, file, ctype, resp,
                 started, histVars, late, opened>>

\* --------------------------------------------------------------- SendFile
\* w.Header().Set("Content-Type", ...) and the rest of SendFile, for a request
\* with Accept-Encoding h.  raw: entry.Entry.OpenRaw() succeeds.
\*   plain:       io.Copy(w, entry)
\*   passthrough: Content-Encoding, the gzip header, then the raw data and the
\*                trailer, or the http.Error after the header when OpenRaw fails
\* a delivery that sends the data and leaves the type to the client
DeliverUntyped(r, t, f, h, raw) == [Write(r) EXCEPT !.body = "plain"]

Deliver(r, t, f, h, raw) ==
  LET typed == SetHeader([r EXCEPT !.contentType = t], "Content-Type")
      coded == SetHeader([typed EXCEPT !.contentEncoding = "gzip"], "Content-Encoding")
      header == Write(Write(Write(coded)))
  IN  IF ~Passthrough(f, h)
        THEN IF RawEntries[f].content = <<>>
               THEN [typed EXCEPT !.body = "plain"]
               ELSE [Write(typed) EXCEPT !.body = "plain"]
      ELSE IF raw
        THEN [Write(Write(header)) EXCEPT !.body = "gzip"]
      ELSE [HttpError(header, StatusInternalServerError) EXCEPT
              !.kind = "Error", !.body = "gzip-header+error", !.openFailed = TRUE]

SfSend(p) ==
  /\ pc[p] = "sf_send"
  /\ \E h \in AcceptEncodings, raw \in BOOLEAN :
       resp' = [resp EXCEPT ![p] = Deliver(resp[p], ctype[p], file[p], h, raw)]
  /\ pc' = [pc EXCEPT ![p] = "done"]
  /\ Return(p)
  /\ UNCHANGED <<alone, index, regVars, fsVars, started, histVars>>

\* The handler has returned (or its goroutine has died): the slot is free for
\* the next request.
Finish(p) ==
  /\ pc[p] \in {"done", "panicked"}
  /\ pc' = [pc EXCEPT ![p] = "idle"]
  /\ resp' = [resp EXCEPT ![p] = NoResp]
  /\ UNCHANGED <<alone, index, regVars, fsVars, origin, zf, file, ctype, started, histVars,
                 late, opened>>

\* ------------------------------------------------- one request on its own
\* What a request does is a function of its inputs and of the archive: here a
\* single request with any path of up to MaxPathLen characters is served by a
\* fresh server.
AllPaths == UNION {[1..n -> Alphabet] : n \in 0..MaxPathLen}

\* what GetMime returns for f when it has to compute it
MimeOf(f) == IF ExtType(f) # NoType THEN ExtType(f) ELSE SniffType(f)

InitAlone ==
  /\ InitServer
  /\ alone \in {[NotAlone EXCEPT !.phase = "new", !.path = path] : path \in AllPaths}

\* ServeHTTP up to the return or the call of z.GetMime, as RouteStep
ServeRoute ==
  /\ alone.phase = "new"
  /\ \E o \in Origins :
       LET a == Route(index, o, alone.path)
       IN  IF a.kind # "SendFile"
             THEN alone' = [alone EXCEPT !.phase = "end", !.resp = Respond(a, alone.path)]
           ELSE IF a.entry.file = NoFile
             THEN alone' = [alone EXCEPT !.phase = "end",
                                         !.resp = Panicked(Respond(a, alone.path))]
           ELSE alone' = [alone EXCEPT !.phase = "send", !.resp = Respond(a, alone.path)]
  /\ UNCHANGED serverVars

\* GetMime on an empty cache and the rest of SendFile, as GmSniff and SfSend
ServeSend ==
  /\ alone.phase = "send"
  /\ \E h \in AcceptEncodings, ok \in BOOLEAN, raw \in BOOLEAN :
       LET f == alone.resp.entry.file
       IN  IF ExtType(f) = NoType /\ ~ok
             THEN alone' = [alone EXCEPT !.phase = "end", !.resp = SniffFailed(alone.resp)]
             ELSE alone' = [alone EXCEPT !.phase = "end", !.accept = h,
                                         !.resp = Deliver(alone.resp, MimeOf(f), f, h, raw)]
  /\ UNCHANGED serverVars

NextAlone == ServeRoute \/ ServeSend

SpecAlone == InitAlone /\ [][NextAlone]_vars

\* ------------------------------------------------- the gzip passthrough
\* Integers wider than TLC's are written as their base-256 digits, the most
\* significant first, as in 0x5F5E1001: an int64 or uint64 has 8 digits (two's
\* complement), a uint32 has 4.
RECURSIVE Reverse(_)
Reverse(s) == IF s = <<>> THEN <<>> ELSE Reverse(Tail(s)) \o <<Head(s)>>

\* uint32(x), and x % 0x1_0000_0000: the low 32 bits
Uint32(x) == SubSeq(x, Len(x) - 3, Len(x))

\* a byte order that writes the most significant byte first
BigEndian(w) == w

\* binary.Write(w, binary.LittleEndian, ...): the least significant byte first
LittleEndian(w) == Reverse(w)

\* len(b) as a uint64
RECURSIVE Digits(_, _)
Digits(n, k) == IF k = 0 THEN <<>> ELSE Digits(n \div 256, k - 1) \o <<n % 256>>
Uint64(n) == Digits(n, 8)

\* The bytes of file contents, and the entry.Entry.Modified.Unix() of entries:
\* the epoch, a date in 2020, the first second that does not fit 32 bits plus
\* two, the second before the epoch, and the zero time.Time.
ContentBytes == {0, 116}
MaxContentLen == 2
Contents == UNION {[1..n -> ContentBytes] : n \in 0..MaxContentLen}

Modifieds ==
  { <<0, 0, 0, 0, 0, 0, 0, 0>>,
    <<0, 0, 0, 0, 95, 94, 16, 1>>,
    <<0, 0, 0, 1, 0, 0, 0, 2>>,
    <<255, 255, 255, 255, 255, 255, 255, 255>>,
    <<255, 255, 255, 241, 136, 110, 9, 0>> }

\* The CRC-32 (IEEE) the archive records for an entry, computed on a register
\* of 32 bits, the least significant first.
WordBits(w) == [k \in 1..32 |-> (w[4 - ((k - 1) \div 8)] \div (2 ^ ((k - 1) % 8))) % 2]
BitsWord(c) ==
  [j \in 1..4 |->
     LET lo == 8 * (4 - j)
     IN  c[lo + 1] + 2 * c[lo + 2] + 4 * c[lo + 3] + 8 * c[lo + 4] + 16 * c[lo + 5]
           + 32 * c[lo + 6] + 64 * c[lo + 7] + 128 * c[lo + 8]]
XorBits(a, b) == [k \in 1..32 |-> (a[k] + b[k]) % 2]
ShiftRight(c) == [k \in 1..32 |-> IF k < 32 THEN c[k + 1] ELSE 0]
CrcPoly == WordBits(<<237, 184, 131, 32>>)
AllOnes == [k \in 1..32 |-> 1]

RECURSIVE CrcShifts(_, _)
CrcShifts(c, n) ==
  IF n = 0 THEN c
  ELSE CrcShifts(IF c[1] = 1 THEN XorBits(ShiftRight(c), CrcPoly) ELSE ShiftRight(c), n - 1)

RECURSIVE CrcUpdate(_, _)
CrcUpdate(c, data) ==
  IF data = <<>> THEN c
  ELSE CrcUpdate(CrcShifts(XorBits(c, WordBits(<<0, 0, 0, Head(data)>>)), 8), Tail(data))

CRC32(data) == BitsWord(XorBits(CrcUpdate(AllOnes, data), AllOnes))

\* The compressed data of an entry as the archiver wrote it: one final stored
\* block of DEFLATE (the block header, LEN and its complement, the bytes).
DeflateStored(content) ==
  <<1, Len(content) % 256, Len(content) \div 256,
       255 - (Len(content) % 256), 255 - (Len(content) \div 256)>> \o content

\* The *zip.File of an entry with the given content and time.  The central
\* directory of a sound archive records the CRC-32 and the size of the content;
\* a damaged one records something else, and a zip64 entry a size of 2^32 or more.
BadCrc == <<222, 173, 190, 239>>
HugeSize == <<0, 0, 0, 1, 0, 0, 0, 0>>
Metas ==
  { [modified |-> m, content |-> c, raw |-> DeflateStored(c), crc32 |-> crc, size64 |-> sz] :
      m \in Modifieds, c \in Contents, crc \in {"sound", "damaged"}, sz \in {"sound", "huge"} }

MetaOf(t) ==
  [t EXCEPT !.crc32 = IF @ = "sound" THEN CRC32(t.content) ELSE BadCrc,
            !.size64 = IF @ = "sound" THEN Uint64(Len(t.content)) ELSE HugeSize]

\* fmt.Fprint(w, "\x1f\x8b\x08\x00"); binary.Write(w, LittleEndian, uint32(mtime));
\* fmt.Fprint(w, "\x00\xff")
GzipHeader(e) == <<31, 139, 8, 0>> \o LittleEndian(Uint32(e.modified)) \o <<0, 255>>

\* a trailer with the two words in the other order
GzipTrailerSizeFirst(e) == LittleEndian(Uint32(e.size64)) \o LittleEndian(e.crc32)

\* binary.Write(w, LittleEndian, []uint32{CRC32, uint32(UncompressedSize64 % 2^32)})
GzipTrailer(e) == LittleEndian(e.crc32) \o LittleEndian(Uint32(e.size64))

\* what SendFile writes when OpenRaw succeeds: header, io.Copy(w, src), trailer
GzipBody(e) == GzipHeader(e) \o e.raw \o GzipTrailer(e)

\* http.Error writes the message and a newline
ErrorText == <<101, 114, 114, 10>>

\* SendFile from line 221 on, for an entry that is to be passed through
InitGzip ==
  /\ InitServer
  /\ alone \in {[NotAlone EXCEPT !.phase = "gz", !.meta = MetaOf(t)] : t \in Metas}

\* w.Header().Set("Content-Encoding", "gzip") ... to the end of SendFile
SendGzip ==
  /\ alone.phase = "gz"
  /\ \E raw \in BOOLEAN :
       IF raw
         THEN alone' = [alone EXCEPT !.phase = "gz-sent", !.out = GzipBody(alone.meta)]
         ELSE alone' = [alone EXCEPT !.phase = "gz-failed",
                                     !.out = GzipHeader(alone.meta) \o ErrorText]
  /\ UNCHANGED serverVars

NextGzip == SendGzip

SpecGzip == InitGzip /\ [][NextGzip]_vars

\* ------------------------------------------------- archives of files only
\* The names of the files an archive may hold; an archive holds any of them,
\* in this order.
FileNames ==
  << <<"d">>, <<"d", "/", "i">>, <<"d", "/", "i", "/", "f">>, <<"f">>, <<"s", "/", "i", "/", "f">> >>

RECURSIVE EntriesOf(_, _)
EntriesOf(chosen, k) ==
  IF k > Len(FileNames) THEN <<>>
  ELSE (IF k \in chosen
          THEN <<[name |-> FileNames[k], method |-> Store, content |-> <<>>]>>
          ELSE <<>>) \o EntriesOf(chosen, k + 1)

FileArchives == {EntriesOf(chosen, 1) : chosen \in SUBSET (1..Len(FileNames))}

\* the names looked up: the files, the directories they lie in, and the root
LookupNames ==
  {FileNames[k] : k \in 1..Len(FileNames)}
    \cup UNION {DirsOf(FileNames[k]) : k \in 1..Len(FileNames)} \cup {Dot}

InitIndex ==
  /\ InitServer
  /\ alone \in {[NotAlone EXCEPT !.phase = "ix", !.archive = ar] : ar \in FileArchives}

\* FindRaw(&z.Reader, p) on the archive, and the ReadDir of SendDirectory
Lookup ==
  /\ alone.phase = "ix"
  /\ \E name \in LookupNames :
       alone' = [alone EXCEPT !.phase = "ix-end", !.path = name,
                              !.found = FindRawIn(FileList(alone.archive), name),
                              !.children = ReadDirIn(FileList(alone.archive), name)]
  /\ UNCHANGED serverVars

NextIndex == Lookup

SpecIndex == InitIndex /\ [][NextIndex]_vars

Next ==
  \E p \in Procs :
    \/ Begin(p)
    \/ GaRLock(p)
    \/ GaRead(p)
    \/ GaRUnlock(p)
    \/ GaOpen(p)
    \/ GaLock(p)
    \/ GaStore(p)
    \/ GaUnlock(p)
    \/ RouteStep(p)
    \/ GmRLock(p)
    \/ GmRead(p)
    \/ GmRUnlock(p)
    \/ GmSniff(p)
    \/ GmLock(p)
    \/ GmStore(p)
    \/ GmUnlock(p)
    \/ SfSend(p)
    \/ Finish(p)

Spec == Init /\ [][Next]_vars

\* ------------------------------------------------------------- the claims
\* C1: two requests that are in flight for the same origin never both perform
\* an archive open that succeeds, and when both have returned from getArchive
\* they hold the same zipFS.
C1_OneOpenSameIndex ==
  \A p, q \in Procs :
    (p # q /\ origin[p] # NoOrigin /\ origin[p] = origin[q])
      => /\ ~(opened[p] /\ opened[q])
         /\ (pc[p] = "route" /\ pc[q] = "route" => zf[p] = zf[q])

\* C2: the registry only grows: a key that maps to a zipFS keeps mapping to
\* that zipFS in every step.
C2_RegistryOnlyGrows ==
  [][\A o \in Origins : archives[o] # NoFs => archives'[o] = archives[o]]_vars

\* C3: a request that begins after a getArchive call for its origin has
\* returned performs no archive open, and what it reads and returns is the
\* zipFS the registry holds.
C3_CachedNotReopened ==
  \A p \in Procs :
    late[p] =>
      /\ ~opened[p]
      /\ pc[p] \notin {"ga_open", "ga_lock", "ga_store", "ga_unlock"}
      /\ (pc[p] \in {"ga_runlock", "route"} => zf[p] # NoFs)
      /\ (pc[p] = "ga_runlock" => zf[p] = archives[origin[p]])

\* C3 witness: a request that began after such a return has its archive.
C3_Witness == \E p \in Procs : late[p] /\ pc[p] = "route" /\ opens[origin[p]] = 1

\* C4: the sniffing read runs at most once for an entry of a zipFS.
C4_SniffAtMostOnce == \A z \in FsIds, f \in FileIds : sniffs[z][f] <= 1

\* C5: a content type in the cache is never changed or removed (the cache
\* holds for an entry the first type stored for it), and every GetMime call
\* for an entry returns that same string.
C5_CacheStable ==
  /\ \A z \in FsIds, f \in FileIds :
       /\ mimeCache[z][f] = firstType[z][f]
       /\ firstType[z][f] \in {NoType, MimeOf(f)}
  /\ \A p \in Procs : pc[p] = "sf_send" => ctype[p] = MimeOf(file[p])

\* C5 witness: a GetMime call is about to store over a value that another
\* call has cached for the same entry.
C5_Witness ==
  \E p \in Procs : pc[p] = "gm_store" /\ mimeCache[zf[p]][file[p]] # NoType

\* what the path of the request served alone resolves to
Resolved == FindRaw(NormPath(alone.path))

\* the request served alone has been routed
Routed == alone.phase \in {"send", "end"}

\* C6: a request for a directory without a trailing slash is answered with a
\* redirect to the request's URL path plus one slash, with or without an
\* index, and the request for that location is not answered with a redirect.
C6_DirectoryRedirect ==
  (Routed /\ ~Resolved.err /\ Resolved.isDir /\ ~HasSuffix(alone.path))
    => /\ alone.phase = "end"
       /\ alone.resp.kind = "Redirect"
       /\ alone.resp.status = StatusMovedPermanently
       /\ alone.resp.body = "redirect"
       /\ \E o \in Origins :
            /\ alone.resp.location = URLPath(o, alone.path) \o <<Slash>>
            /\ Route(index, o, PathTranslated(alone.resp.location)).kind
                 \in {"SendDirectory", "SendFile"}

\* C6 witness: with an index configured, a directory asked for without its
\* slash has been answered with a redirect.
C6_Witness ==
  /\ alone.phase = "end" /\ index # NoIndex /\ alone.resp.kind = "Redirect"
  /\ alone.path = <<"/", "d">>

\* C7: for a directory asked for with its trailing slash, the index file is
\* what is served exactly when an index is configured and directory/index
\* resolves to a file; in every other case the listing is served.
C7_IndexIffFile ==
  (Routed /\ ~Resolved.err /\ Resolved.isDir /\ HasSuffix(alone.path))
    => LET ie == FindRaw(JoinPath(NormPath(alone.path), index))
       IN  IF index # NoIndex /\ ~ie.err /\ ~ie.isDir
             THEN alone.resp.viaIndex /\ alone.resp.entry = ie
             ELSE alone.resp.kind = "SendDirectory" /\ alone.resp.entry = Resolved

\* C8: a request whose path resolves to a file is answered NotFound when the
\* path ends in a slash, whatever the index, and otherwise SendFile is called
\* with that entry.
C8_FileRouting ==
  (Routed /\ ~Resolved.err /\ ~Resolved.isDir)
    => IF HasSuffix(alone.path)
         THEN /\ alone.phase = "end"
              /\ alone.resp.kind = "Error"
              /\ alone.resp.status = StatusNotFound
              /\ alone.resp.body = "error"
         ELSE /\ alone.resp.entry = Resolved
              /\ ~alone.resp.viaIndex
              /\ alone.resp.lastModified = Resolved.file
              /\ alone.resp.body \in {"", "plain", "gzip", "gzip-header+error"}

\* C8 witness: with an index configured, a file asked for with a trailing
\* slash has been answered NotFound.
C8_Witness ==
  /\ alone.phase = "end" /\ index # NoIndex /\ alone.path = <<"/", "f", "/">>
  /\ alone.resp.status = StatusNotFound

\* C9: a request whose normalized path is no key of the archive index is
\* answered NotFound and nothing else, and a request whose trimmed path is
\* empty resolves to the root directory.
C9_MissIsNotFound ==
  Routed =>
    /\ NormPath(alone.path) \notin IndexKeys
         => /\ alone.phase = "end"
            /\ alone.resp =
                 HttpError([NoResp EXCEPT !.kind = "Error", !.path = alone.path,
                                          !.body = "error"], StatusNotFound)
    /\ Trim(alone.path) = <<>>
         => /\ alone.resp.kind \in {"Redirect", "SendDirectory"}
            /\ alone.resp.entry = [err |-> FALSE, isDir |-> TRUE, file |-> NoFile, key |-> Dot]

\* C9 witness: a path that is a key with one more character has been answered
\* NotFound.
C9_Witness ==
  /\ alone.phase = "end" /\ alone.path = <<"/", "d", "/", "h">>
  /\ alone.resp.status = StatusNotFound

\* the client lists the coding gzip with a nonzero weight
ClientAcceptsGzip(h) == \E k \in 1..Len(h) : \E j \in 1..Len(h[k]) : h[k][j] = "gzip"

\* C10: SendFile sends the compressed data and sets Content-Encoding exactly
\* when the client accepts gzip and the entry is stored with Deflate;
\* otherwise it sends the decompressed data and sets no Content-Encoding.
C10_PassthroughIffAccepted ==
  (alone.phase = "end" /\ alone.resp.body \in {"plain", "gzip", "gzip-header+error"})
    => IF ClientAcceptsGzip(alone.accept)
            /\ RawEntries[alone.resp.entry.file].method = Deflate
         THEN alone.resp.contentEncoding = "gzip" /\ alone.resp.body # "plain"
         ELSE alone.resp.contentEncoding = "" /\ alone.resp.body = "plain"

\* C11: what is written in passthrough mode is the 10-byte header (1f 8b, 08,
\* 00, the time in Unix seconds modulo 2^32 as 4 bytes least significant
\* first, 00 ff), the raw data unmodified, the CRC-32 and the size modulo 2^32
\* as 4 bytes each, least significant first: the compressed size plus 18 bytes.
C11_GzipLayout ==
  alone.phase = "gz-sent" =>
    LET b == alone.out
        e == alone.meta
        n == Len(e.raw)
    IN  /\ Len(b) = n + 18
        /\ SubSeq(b, 1, 4) = <<31, 139, 8, 0>>
        /\ <<b[8], b[7], b[6], b[5]>> = SubSeq(e.modified, 5, 8)
        /\ SubSeq(b, 9, 10) = <<0, 255>>
        /\ SubSeq(b, 11, 10 + n) = e.raw
        /\ <<b[n + 14], b[n + 13], b[n + 12], b[n + 11]>> = e.crc32
        /\ <<b[n + 18], b[n + 17], b[n + 16], b[n + 15]>> = SubSeq(e.size64, 5, 8)

\* C11 witness: an entry whose time and size do not fit 32 bits has been sent.
C11_Witness ==
  /\ alone.phase = "gz-sent"
  /\ alone.meta.modified = <<0, 0, 0, 1, 0, 0, 0, 2>>
  /\ alone.meta.size64 = HugeSize
  /\ alone.meta.content # <<>>

\* C12: a request that fails to open the byte stream of its entry (the raw
\* stream in passthrough mode, or the stream opened for sniffing) ends with a
\* server-error response and with no part of a success body written.
C12_OpenFailureIsServerError ==
  \A p \in Procs :
    resp[p].openFailed =>
      /\ resp[p].kind = "Error"
      /\ resp[p].status = StatusInternalServerError
      /\ resp[p].body = "error"

\* C13: within a request every header and the status are set before the first
\* byte of the body is written: after a Write nothing but Writes follow.
C13_HeadersBeforeBody ==
  LET log == alone.resp.log
  IN  \A j, k \in 1..Len(log) : (j < k /\ log[j] = "Write") => log[k] = "Write"

\* A standard gzip decompressor (RFC 1952, RFC 1951 stored blocks): the member
\* header without optional fields, the DEFLATE data, then the CRC-32 and the
\* length modulo 2^32 of the decompressed data, both checked.
NoData == [ok |-> FALSE, data |-> <<>>, rest |-> <<>>]

RECURSIVE Inflate(_)
Inflate(s) ==
  IF Len(s) < 5 THEN NoData
  ELSE LET final == s[1] % 2
           btype == (s[1] \div 2) % 4
           len == s[2] + 256 * s[3]
           nlen == s[4] + 256 * s[5]
       IN  IF btype # 0 \/ len + nlen # 65535 \/ Len(s) < 5 + len THEN NoData
           ELSE LET data == SubSeq(s, 6, 5 + len)
                    rest == SubSeq(s, 6 + len, Len(s))
                    more == Inflate(rest)
                IN  IF final = 1 THEN [ok |-> TRUE, data |-> data, rest |-> rest]
                    ELSE [more EXCEPT !.data = data \o more.data]

Gunzip(s) ==
  IF Len(s) < 18 \/ SubSeq(s, 1, 4) # <<31, 139, 8, 0>> THEN NoData
  ELSE LET r == Inflate(SubSeq(s, 11, Len(s)))
       IN  IF /\ r.ok
              /\ Len(r.rest) = 8
              /\ <<r.rest[4], r.rest[3], r.rest[2], r.rest[1]>> = CRC32(r.data)
              /\ <<r.rest[8], r.rest[7], r.rest[6], r.rest[5]>> = Digits(Len(r.data), 4)
             THEN [r EXCEPT !.rest = <<>>]
             ELSE NoData

\* the archive records for the entry the CRC-32 and the size of its content
Sound(e) == e.crc32 = CRC32(e.content) /\ e.size64 = Uint64(Len(e.content))

\* C14: for an entry sent in passthrough mode, a standard gzip decompressor
\* accepts what was written and yields the entry's decompressed content, and
\* the CRC-32 of the trailer is the CRC-32 computed over those bytes.
C14_GunzipRoundTrip ==
  (alone.phase = "gz-sent" /\ Sound(alone.meta)) =>
    LET b == alone.out
        n == Len(b)
        g == Gunzip(b)
    IN  /\ g.ok
        /\ g.data = alone.meta.content
        /\ <<b[n - 4], b[n - 5], b[n - 6], b[n - 7]>> = CRC32(g.data)

\* C14 witness: a sound entry of two bytes, dated 2020, has been sent.
C14_Witness ==
  /\ alone.phase = "gz-sent" /\ Sound(alone.meta)
  /\ alone.meta.content = <<0, 116>>
  /\ alone.meta.modified = <<0, 0, 0, 0, 95, 94, 16, 1>>

\* C15: when zip.OpenReader fails, the request is answered with the error
\* status NotFound and the registry is left as it was; a request that finds no
\* key for its origin goes on to open the archive.
C15_OpenFailureLeavesRegistry ==
  [][\A p \in Procs :
       /\ (pc[p] = "ga_open" /\ pc'[p] = "done")
            => /\ archives' = archives
               /\ nextFs' = nextFs
               /\ resp'[p].kind = "Error"
               /\ resp'[p].status = StatusNotFound
               /\ resp'[p].body = "error"
       /\ (pc[p] = "ga_runlock" /\ pc'[p] # "ga_runlock" /\ zf[p] = NoFs)
            => pc'[p] = "ga_open"]_vars

\* C15 witness: a request has been answered with the open error for an origin
\* that has no key, and another request for that origin is about to open it.
C15_Witness ==
  \E p, q \in Procs :
    /\ pc[p] = "done" /\ resp[p].origin # NoOrigin /\ resp[p].status = StatusNotFound
    /\ pc[q] = "ga_open" /\ origin[q] = resp[p].origin
    /\ archives[origin[q]] = NoFs /\ opens[origin[q]] = 0

\* C16: every delivery of a file, plain or passed through, direct or through
\* the index, has set Last-Modified from the entry that is delivered and
\* Content-Type to what GetMime resolves for that same entry, before the data.
C16_FileHeaders ==
  LET r == alone.resp
  IN  (alone.phase = "end" /\ r.body \in {"plain", "gzip"}) =>
        /\ r.entry.file # NoFile
        /\ r.lastModified = r.entry.file
        /\ r.contentType = MimeOf(r.entry.file)
        /\ r.entry = (IF r.viaIndex THEN FindRaw(JoinPath(NormPath(alone.path), index))
                                    ELSE Resolved)
        /\ \E j, k \in 1..Len(r.log) : r.log[j] = "Last-Modified" /\ r.log[k] = "Content-Type"
        /\ \A j, k \in 1..Len(r.log) :
             (r.log[j] = "Write" /\ r.log[k] \in {"Last-Modified", "Content-Type"}) => k < j

\* C16 witness: the index file of a directory has been delivered compressed.
C16_Witness ==
  /\ alone.phase = "end" /\ alone.path = <<"/", "d", "/">>
  /\ alone.resp.viaIndex /\ alone.resp.body = "gzip"
  /\ alone.resp.contentType = TextHTML

\* the names of the archive looked into
NamesIn(ar) == {ar[k].name : k \in 1..Len(ar)}

\* name lies one segment below dir
OneBelow(name, dir) ==
  IF dir = Dot THEN Len(Elements(name)) = 1
  ELSE /\ Len(Elements(name)) = Len(Elements(dir)) + 1
       /\ SubSeq(Elements(name), 1, Len(Elements(dir))) = Elements(dir)

\* C17: in an archive of files only, every directory a file lies in resolves
\* to a directory with no entry behind it, whose children are the names one
\* segment below it, and the root resolves to a directory.
C17_SyntheticDirectories ==
  alone.phase = "ix-end" =>
    LET names == NamesIn(alone.archive)
        dirs == UNION {DirsOf(n) : n \in names}
    IN  /\ alone.path \in dirs \cup {Dot}
             => /\ ~alone.found.err /\ alone.found.isDir /\ alone.found.file = NoFile
                /\ alone.children = {n \in names \cup dirs : OneBelow(n, alone.path)}
        /\ alone.path = Dot => ~alone.found.err /\ alone.found.isDir

\* C18: zip.OpenReader and the sniffing read run with no lock held: a request
\* that holds the registry lock is between the lock and the unlock of
\* getArchive, one that holds a content-type cache lock is between the lock
\* and the unlock of GetMime, and none of them is opening or sniffing, so no
\* request waits for a lock while its holder opens or sniffs.
C18_NoLockWhileOpening ==
  \A p \in Procs :
    /\ (p \in regReaders) = (pc[p] \in {"ga_read", "ga_runlock"})
    /\ (regWriter = p) = (pc[p] \in {"ga_store", "ga_unlock"})
    /\ \A z \in FsIds :
         /\ (p \in fsReaders[z]) = (pc[p] \in {"gm_read", "gm_runlock"} /\ zf[p] = z)
         /\ (fsWriter[z] = p) = (pc[p] \in {"gm_store", "gm_unlock"} /\ zf[p] = z)
    /\ pc[p] \in {"ga_open", "gm_sniff"} =>
         /\ p \notin regReaders /\ regWriter # p
         /\ \A z \in FsIds : p \notin fsReaders[z] /\ fsWriter[z] # p

\* C18 witness: a request is sniffing an entry while another request holds the
\* lock of the same cache to store a type, and the registry lock is free.
C18_Witness ==
  \E p, q \in Procs :
    /\ p # q /\ pc[p] = "gm_sniff" /\ pc[q] = "gm_store" /\ zf[p] = zf[q]
    /\ fsWriter[zf[q]] = q /\ regWriter = NoProc /\ regReaders = {}

\* the response of a request that ServeHTTP has handed to SendFile
InSendFile(r) == r.kind \in {"SendFile", "Panic"} \/ r.openFailed

\* C19: SendFile is only reached with an entry that is a file and has its
\* *zip.File, also when the index name in a directory is itself a directory.
C19_SendFileGetsFile ==
  \A p \in Procs :
    InSendFile(resp[p]) =>
      /\ ~resp[p].entry.err
      /\ ~resp[p].entry.isDir
      /\ resp[p].entry.file # NoFile

\* the type of an entry: that of the extension table, else that of the first
\* SniffLen bytes of the content, or emptyType when there are none
TypeOfEntry(f, emptyType) ==
  LET c == RawEntries[f].content
      first == [k \in 1..(IF Len(c) < SniffLen THEN Len(c) ELSE SniffLen) |-> c[k]]
  IN  IF ExtType(f) # NoType THEN ExtType(f)
      ELSE IF first = <<>> THEN emptyType
      ELSE DetectContentType(first)

ClaimedTypes == [f \in FileIds |-> TypeOfEntry(f, OctetStream)]
SniffedTypes == [f \in FileIds |-> TypeOfEntry(f, TextPlain)]

\* GetMime resolves in order, with these results: an entry with a type in the
\* extension table is never opened; whatever is cached or returned is the
\* type of the entry; what is returned has been cached.
MimeOrder(types) ==
  /\ \A z \in FsIds, f \in FileIds :
       /\ ExtType(f) # NoType => sniffs[z][f] = 0
       /\ mimeCache[z][f] \in {NoType, types[f]}
  /\ \A p \in Procs :
       /\ pc[p] = "gm_sniff" => ExtType(file[p]) = NoType
       /\ pc[p] \in {"gm_lock", "gm_store", "gm_unlock", "sf_send"} => ctype[p] = types[file[p]]
       /\ pc[p] \in {"gm_unlock", "sf_send"} => mimeCache[zf[p]][file[p]] = ctype[p]

\* C20: GetMime returns and caches the type of the extension table when there
\* is one, and then it does not open the entry; otherwise it returns what the
\* first SniffLen bytes of the content are detected as, and the generic binary
\* type when the content has no bytes.
C20_MimeOrder == MimeOrder(ClaimedTypes)

\* C20 as amended: the same, but for a content with no bytes the result is
\* what the detection returns for no bytes, text/plain; charset=utf-8.
C20_MimeOrderAmended == MimeOrder(SniffedTypes)

\* C20 witness: the file with no content has been sniffed and its type cached,
\* and a file with more than SniffLen bytes has been sniffed.
C20_Witness ==
  \E p \in Procs, z \in FsIds :
    /\ pc[p] = "sf_send" /\ zf[p] = z /\ file[p] = EntryIdOf(<<"e", "/", "f">>)
    /\ mimeCache[z][file[p]] = TextPlain /\ sniffs[z][file[p]] = 1
    /\ sniffs[z][EntryIdOf(<<"f">>)] = 1

\* what ServeHTTP has chosen to do for the path of a response
ActionOf(r) ==
  IF InSendFile(r) THEN "file"
  ELSE CASE r.kind = "Redirect" -> "redirect"
         [] r.kind = "SendDirectory" -> "listing"
         [] OTHER -> "not-found"

\* ServeHTTP has got the archive and has routed the request of this response
WasRouted(r) == r.kind # "" /\ r.origin = NoOrigin

RegistryReads == {p \in Procs : pc[p] = "ga_read"}
RegistryWrites == {p \in Procs : pc[p] = "ga_store"}

\* the requests about to read, and about to write, the cache map of a zipFS
CacheReads(z) == {p \in Procs : pc[p] = "gm_read" /\ zf[p] = z}
CacheWrites(z) == {p \in Procs : pc[p] = "gm_store" /\ zf[p] = z}

\* C22: a request reads the registry map or a content-type cache map only
\* while it holds the lock of that map, shared or exclusive, and writes it only
\* while it holds the lock exclusively; a request about to write a map is the
\* only request about to access that map.
C22_MapAccessLocked ==
  /\ \A p \in RegistryReads : p \in regReaders \/ regWriter = p
  /\ \A p \in RegistryWrites :
       /\ regWriter = p
       /\ RegistryReads \cup RegistryWrites = {p}
  /\ \A z \in FsIds :
       /\ \A p \in CacheReads(z) : p \in fsReaders[z] \/ fsWriter[z] = p
       /\ \A p \in CacheWrites(z) :
            /\ fsWriter[z] = p
            /\ CacheReads(z) \cup CacheWrites(z) = {p}

\* C22 witness: a request is about to write the cache of a zipFS under the
\* exclusive lock while another request of the same zipFS waits for the lock.
C22_Witness ==
  \E p, q \in Procs :
    /\ pc[p] = "gm_store" /\ fsWriter[zf[p]] = p
    /\ zf[q] = zf[p] /\ pc[q] \in {"gm_rlock", "gm_lock"}

\* the handler of the request has ended: by a return or by a panic
Finished(p) == pc[p] \in {"done", "panicked"}

\* the request holds a lock of the registry or of a zipFS
HoldsLock(p) ==
  \/ p \in regReaders \/ regWriter = p
  \/ \E z \in FsIds : p \in fsReaders[z] \/ fsWriter[z] = p

\* C23: a request whose handler has ended has completed with exactly one
\* response, a status line having gone out to the client, and holds no lock of
\* getArchive or GetMime.
C23_CompletesWithResponse ==
  \A p \in Procs :
    Finished(p) =>
      /\ pc[p] = "done" /\ resp[p].kind # "Panic"
      /\ resp[p].status # 0
      /\ ~HoldsLock(p)

====
